---- MODULE Spec2Model ----
(***************************************************************************)
(* issuedash: fetch the issues of one repository, group them by milestone  *)
(* and by "component: " label, count, sort and render them.                *)
(*                                                                         *)
(* Two generations of the program are modelled:                            *)
(*   "md"  - src/main.go: printIssues buckets and prints Markdown itself   *)
(*   "est" - src/unnamed/part_000: parseIssues builds milestone/component  *)
(*           records with counters and day estimates, a template renders   *)
(* run, allIssues, readIssues and writeIssues are the same in both.        *)
(*                                                                         *)
(* Go strings are sequences of one-character strings, so that prefix       *)
(* tests, slicing, trimming, splitting and number parsing are computed.    *)
(* A nil pointer is the empty sequence <<>>, a set pointer is <<v>>.       *)
(***************************************************************************)
EXTENDS Integers, Sequences, FiniteSets, TLC

VARIABLES variant, fromFile, repo, milestones, out,
          pc, ms, page, requested, allIssues, issues, err,
          stdout, cache, exit

vars == <<variant, fromFile, repo, milestones, out,
          pc, ms, page, requested, allIssues, issues, err,
          stdout, cache, exit>>

flagVars == <<variant, fromFile, repo, milestones, out>>

(***************************************************************************)
(* Bounds                                                                  *)
(***************************************************************************)
MaxIssues == 2
MaxSortLen == 3
MaxLabels == 2
MaxEstLen == 2
MaxFlagLen == 5
MaxRequests == 3

(***************************************************************************)
(* Strings                                                                 *)
(***************************************************************************)
Nil == <<>>

\* printable ASCII from code 32; slot 65 (code 96) holds a placeholder
AsciiTable ==
  <<" ", "!", "\"", "#", "$", "%", "&", "'", "(", ")", "*", "+", ",", "-",
    ".", "/", "0", "1", "2", "3", "4", "5", "6", "7", "8", "9", ":", ";",
    "<", "=", ">", "?", "@", "A", "B", "C", "D", "E", "F", "G", "H", "I",
    "J", "K", "L", "M", "N", "O", "P", "Q", "R", "S", "T", "U", "V", "W",
    "X", "Y", "Z", "[", "\\", "]", "^", "_", "(grave)", "a", "b", "c", "d", "e",
    "f", "g", "h", "i", "j", "k", "l", "m", "n", "o", "p", "q", "r", "s",
    "t", "u", "v", "w", "x", "y", "z", "{", "|", "}", "~">>

Ord(c) == 31 + (CHOOSE i \in 1..Len(AsciiTable) : AsciiTable[i] = c)

\* Go's < on strings: bytewise lexicographic
StrLess(a, b) ==
  \E k \in 1..Len(b) :
    /\ \A i \in 1..(k - 1) : i <= Len(a) /\ a[i] = b[i]
    /\ \/ k = Len(a) + 1
       \/ k <= Len(a) /\ Ord(a[k]) < Ord(b[k])

HasPrefix(s, p) == Len(s) >= Len(p) /\ SubSeq(s, 1, Len(p)) = p

HasSuffix(s, p) == Len(s) >= Len(p) /\ SubSeq(s, Len(s) - Len(p) + 1, Len(s)) = p

\* s[n:] of Go, n counted from 0
From(s, n) == SubSeq(s, n + 1, Len(s))

\* unicode.IsSpace, on which strings.TrimSpace decides: tab, line feed,
\* vertical tab (written raw), form feed, carriage return, blank, U+0085 and
\* U+00A0 (written raw), and the White_Space characters beyond Latin-1, which
\* stand here under their code point names
WideSpaces ==
  {"(U+1680)", "(U+2000)", "(U+2001)", "(U+2002)", "(U+2003)", "(U+2004)", "(U+2005)",
   "(U+2006)", "(U+2007)", "(U+2008)", "(U+2009)", "(U+200A)", "(U+2028)", "(U+2029)",
   "(U+202F)", "(U+205F)", "(U+3000)"}

IsSpace(c) == c \in {"\t", "\n", "", "\f", "\r", " ", "", " "} \cup WideSpaces

TrimSpace(s) ==
  LET keep == {i \in 1..Len(s) : ~IsSpace(s[i])}
  IN  IF keep = {} THEN <<>>
      ELSE SubSeq(s, CHOOSE i \in keep : \A j \in keep : i <= j,
                     CHOOSE i \in keep : \A j \in keep : i >= j)

IsDigit(c) == c \in {"0", "1", "2", "3", "4", "5", "6", "7", "8", "9"}

DigitVal(c) == Ord(c) - 48

RECURSIVE DigitsVal(_)
DigitsVal(s) ==
  IF s = <<>> THEN 0
  ELSE 10 * DigitsVal(SubSeq(s, 1, Len(s) - 1)) + DigitVal(s[Len(s)])

\* int of Go on a 64-bit platform: x wrapped into -2^63 .. 2^63 - 1
Int64(x) ==
  IF -1073741824 < x /\ x < 1073741824 THEN x
  ELSE ((x + 2^63) % 2^64) - 2^63

\* the digits of 2^63 - 1 and of 2^63
MaxInt64Digits ==
  <<"9", "2", "2", "3", "3", "7", "2", "0", "3", "6", "8", "5", "4", "7", "7", "5", "8", "0", "7">>
MinInt64Digits ==
  <<"9", "2", "2", "3", "3", "7", "2", "0", "3", "6", "8", "5", "4", "7", "7", "5", "8", "0", "8">>

RECURSIVE StripZeros(_)
StripZeros(s) == IF s # <<>> /\ s[1] = "0" THEN StripZeros(Tail(s)) ELSE s

\* the numeral a denotes more than the numeral b
DigitsGreater(a, b) ==
  LET x == StripZeros(a)
      y == StripZeros(b)
  IN  \/ Len(x) > Len(y)
      \/ /\ Len(x) = Len(y)
         /\ \E k \in 1..Len(x) :
              /\ \A i \in 1..(k - 1) : x[i] = y[i]
              /\ DigitVal(x[k]) > DigitVal(y[k])

\* strconv.Atoi with the error dropped (num, _ := ...): 0 on a syntax error,
\* the nearest bound of int on a range error
Atoi(s) ==
  LET signed == s # <<>> /\ s[1] \in {"+", "-"}
      neg    == signed /\ s[1] = "-"
      body   == IF signed THEN Tail(s) ELSE s
      bound  == IF neg THEN MinInt64Digits ELSE MaxInt64Digits
      digits == IF DigitsGreater(body, bound) THEN bound ELSE StripZeros(body)
  IN  IF body = <<>> \/ \E i \in 1..Len(body) : ~IsDigit(body[i]) THEN 0
      ELSE IF neg THEN 0 - DigitsVal(digits)
      ELSE DigitsVal(digits)

\* strings.Split(s, sep) for a one-character separator
RECURSIVE Split(_, _)
Split(s, sep) ==
  LET hits == {i \in 1..Len(s) : s[i] = sep}
  IN  IF hits = {} THEN <<s>>
      ELSE LET k == CHOOSE i \in hits : \A j \in hits : i <= j
           IN  <<SubSeq(s, 1, k - 1)>> \o Split(SubSeq(s, k + 1, Len(s)), sep)

\* strings.SplitN(s, sep, 2)
SplitN2(s, sep) ==
  LET hits == {i \in 1..Len(s) : s[i] = sep}
  IN  IF hits = {} THEN <<s>>
      ELSE LET k == CHOOSE i \in hits : \A j \in hits : i <= j
           IN  <<SubSeq(s, 1, k - 1), SubSeq(s, k + 1, Len(s))>>

PrefixComponent == <<"c", "o", "m", "p", "o", "n", "e", "n", "t", ":", " ">>
PrefixType == <<"t", "y", "p", "e", ":", " ">>
PrefixEstimate == <<"e", "s", "t", "i", "m", "a", "t", "e", ":", " ">>

SeqsUpTo(S, n) == UNION {[1..k -> S] : k \in 0..n}

\* every sequence whose i-th element is drawn from the i-th set
RECURSIVE Product(_)
Product(sets) ==
  IF sets = <<>> THEN {<<>>}
  ELSE {<<x>> \o rest : x \in sets[1], rest \in Product(Tail(sets))}

(***************************************************************************)
(* Issues.  An issue is a record                                           *)
(*   Number    - the issue number                                          *)
(*   Milestone - Nil or <<title>>                                          *)
(*   Labels    - the label names, in the order the source returns them     *)
(*   Closed    - ClosedAt != nil                                           *)
(*   Assigned  - Assignee != nil                                           *)
(* An entry of a component's list refers to its issue by the index of the  *)
(* issue in the input slice (the pointer &ghIssues[i]).                    *)
(***************************************************************************)
Issue(n, m, c, a, l) ==
  [Number |-> n, Milestone |-> m, Closed |-> c, Assigned |-> a, Labels |-> l]

\* the arrangements of a slice that sort.Sort's Swap can produce
Arrangements(s) ==
  IF Len(s) <= 1 THEN {s}
  ELSE {[i \in 1..Len(s) |-> s[p[i]]] : p \in Permutations(1..Len(s))}

\* IssueLess with the assignee test left out
IssueLessNoAssignee(gh, a, b) ==
  IF gh[a.ref].Closed = gh[b.ref].Closed
  THEN gh[a.ref].Number < gh[b.ref].Number
  ELSE ~gh[a.ref].Closed

\* issues.Less / Issues.Less on two entries of a component's list
IssueLess(gh, a, b) ==
  LET iClosed   == gh[a.ref].Closed
      jClosed   == gh[b.ref].Closed
      iAssigned == gh[a.ref].Assigned
      jAssigned == gh[b.ref].Assigned
  IN  IF iClosed = jClosed
      THEN IF iAssigned = jAssigned
           THEN gh[a.ref].Number < gh[b.ref].Number
           ELSE ~iAssigned
      ELSE ~iClosed

\* ComponentLess with the comparison turned round
ComponentLessReversed(a, b) == StrLess(b.Name, a.Name)

\* components.Less
ComponentLess(a, b) == StrLess(a.Name, b.Name)

\* sort.Sort is not stable: any arrangement in which no element is Less than
\* its predecessor can be the outcome
SortIssues(gh, s) ==
  {t \in Arrangements(s) : \A i \in 1..(Len(s) - 1) : ~IssueLess(gh, t[i + 1], t[i])}

SortComponents(s) ==
  {t \in Arrangements(s) : \A i \in 1..(Len(s) - 1) : ~ComponentLess(t[i + 1], t[i])}

(***************************************************************************)
(* "est": parseIssues of src/unnamed/part_000                              *)
(***************************************************************************)
ZeroStats == [Closed |-> 0, Total |-> 0, Days |-> 0]

\* EstimateDays with a week counted as one day
EstimateDaysFlat(lbl) ==
  LET str == TrimSpace(From(lbl, 10))
      m   == IF HasSuffix(str, <<"d">>) \/ HasSuffix(str, <<"w">>) THEN 1 ELSE 0
      num == Atoi(SubSeq(str, 1, Len(str) - 1))
  IN  IF m > 0 /\ num > 0 THEN Int64(m * num) ELSE 0

\* the body of the "estimate: " branch: what one label adds to days
EstimateDays(lbl) ==
  LET str == TrimSpace(From(lbl, 10))
      m   == IF HasSuffix(str, <<"d">>) THEN 1
             ELSE IF HasSuffix(str, <<"w">>) THEN 5
             ELSE 0
      num == Atoi(SubSeq(str, 1, Len(str) - 1))
  IN  IF m > 0 /\ num > 0 THEN Int64(m * num) ELSE 0

\* the label loop: cmpName and typeName are overwritten, days accumulates
RECURSIVE ScanLabels(_, _, _)
ScanLabels(labels, j, acc) ==
  IF j > Len(labels) THEN acc
  ELSE LET lbl == labels[j]
           a1  == IF HasPrefix(lbl, PrefixComponent)
                  THEN [acc EXCEPT !.cmpName = From(lbl, 11)] ELSE acc
           a2  == IF HasPrefix(lbl, PrefixType)
                  THEN [a1 EXCEPT !.typeName = From(lbl, 6)] ELSE a1
           a3  == IF HasPrefix(lbl, PrefixEstimate)
                  THEN [a2 EXCEPT !.days = Int64(@ + EstimateDays(lbl))] ELSE a2
       IN  ScanLabels(labels, j + 1, a3)

Scan(labels) == ScanLabels(labels, 1, [cmpName |-> <<>>, typeName |-> <<>>, days |-> 0])

\* Count with Total++ moved into the else branch
CountOpenOnly(stats, closed, days) ==
  [Closed |-> stats.Closed + (IF closed THEN 1 ELSE 0),
   Total  |-> stats.Total + (IF closed THEN 0 ELSE 1),
   Days   |-> Int64(stats.Days + (IF closed THEN 0 ELSE days))]

\* Count with Days += days moved out of the else branch
CountDaysAlways(stats, closed, days) ==
  [Closed |-> stats.Closed + (IF closed THEN 1 ELSE 0),
   Total  |-> stats.Total + 1,
   Days   |-> Int64(stats.Days + days)]

\* Total++, Closed++ or Days += days
Count(stats, closed, days) ==
  [Closed |-> stats.Closed + (IF closed THEN 1 ELSE 0),
   Total  |-> stats.Total + 1,
   Days   |-> Int64(stats.Days + (IF closed THEN 0 ELSE days))]

\* the "if cmpName != ''" block: look the component up or create it, append
AddToComponent(m, sc, i, closed) ==
  LET known == {k \in 1..Len(m.Components) : m.Components[k].Name = sc.cmpName}
      comps == IF known = {}
               THEN Append(m.Components,
                           [Name |-> sc.cmpName, Issues |-> <<>>, Stats |-> ZeroStats])
               ELSE m.Components
      k     == CHOOSE x \in 1..Len(comps) : comps[x].Name = sc.cmpName
      entry == [ref |-> i, Type |-> sc.typeName, Days |-> sc.days]
  IN  [m EXCEPT !.Components =
         [comps EXCEPT ![k] = [Name   |-> @.Name,
                               Issues |-> Append(@.Issues, entry),
                               Stats  |-> Count(@.Stats, closed, sc.days)]]]

\* ParseStep without the nil test: the title of an absent milestone reads as ""
ParseStepNoSkip(msMap, gh, i) ==
  LET title == IF gh[i].Milestone = Nil THEN <<>> ELSE gh[i].Milestone[1]
      m0    == IF title \in DOMAIN msMap THEN msMap[title]
               ELSE [Title |-> title, Components |-> <<>>, Stats |-> ZeroStats]
      sc    == Scan(gh[i].Labels)
      m1    == [m0 EXCEPT !.Stats = Count(@, gh[i].Closed, sc.days)]
      m2    == IF sc.cmpName # <<>>
               THEN AddToComponent(m1, sc, i, gh[i].Closed) ELSE m1
  IN  [t \in DOMAIN msMap \cup {title} |-> IF t = title THEN m2 ELSE msMap[t]]

\* one iteration of "for i := range ghIssues"
ParseStep(msMap, gh, i) ==
  IF gh[i].Milestone = Nil THEN msMap
  ELSE LET title == gh[i].Milestone[1]
           m0    == IF title \in DOMAIN msMap THEN msMap[title]
                    ELSE [Title |-> title, Components |-> <<>>, Stats |-> ZeroStats]
           sc    == Scan(gh[i].Labels)
           m1    == [m0 EXCEPT !.Stats = Count(@, gh[i].Closed, sc.days)]
           m2    == IF sc.cmpName # <<>>
                    THEN AddToComponent(m1, sc, i, gh[i].Closed) ELSE m1
       IN  [t \in DOMAIN msMap \cup {title} |-> IF t = title THEN m2 ELSE msMap[t]]

RECURSIVE ParseLoop(_, _, _)
ParseLoop(msMap, gh, i) ==
  IF i > Len(gh) THEN msMap ELSE ParseLoop(ParseStep(msMap, gh, i), gh, i + 1)

\* SortMilestone leaving each component's issues in the order of arrival
SortMilestoneComponentsOnly(m, gh) ==
  {[m EXCEPT !.Components = o] : o \in SortComponents(m.Components)}

\* the closing loop: sort.Sort(cmp.Issues) for each, then sort.Sort(ms.Components)
SortMilestone(m, gh) ==
  LET perComp == [k \in 1..Len(m.Components) |->
                    {[m.Components[k] EXCEPT !.Issues = o] :
                       o \in SortIssues(gh, m.Components[k].Issues)}]
  IN  UNION {{[m EXCEPT !.Components = o] : o \in SortComponents(cs)} :
               cs \in Product(perComp)}

\* parseIssues: the maps it can return
parseIssues(gh) ==
  LET msMap == ParseLoop(<<>>, gh, 1)
      all   == UNION {SortMilestone(msMap[t], gh) : t \in DOMAIN msMap}
  IN  {r \in [DOMAIN msMap -> all] : \A t \in DOMAIN msMap : r[t] \in SortMilestone(msMap[t], gh)}

(***************************************************************************)
(* "md": printIssues of src/main.go                                        *)
(***************************************************************************)
\* the label loop of one issue: every "component: " label appends the issue
RECURSIVE MdLabels(_, _, _, _)
MdLabels(byCmp, labels, j, i) ==
  IF j > Len(labels) THEN byCmp
  ELSE LET lbl  == labels[j]
           name == From(lbl, 11)
           old  == IF name \in DOMAIN byCmp THEN byCmp[name] ELSE <<>>
           nxt  == IF HasPrefix(lbl, PrefixComponent)
                   THEN [n \in DOMAIN byCmp \cup {name} |->
                           IF n = name THEN Append(old, [ref |-> i]) ELSE byCmp[n]]
                   ELSE byCmp
       IN  MdLabels(nxt, labels, j + 1, i)

\* one iteration of "for i := range issues"; st = [parsed, msCounts]
MdStep(st, gh, i) ==
  IF gh[i].Milestone = Nil THEN st
  ELSE LET title  == gh[i].Milestone[1]
           fresh  == title \notin DOMAIN st.parsed
           byCmp  == IF fresh THEN <<>> ELSE st.parsed[title]
           counts == IF fresh THEN [open |-> 0, closed |-> 0] ELSE st.msCounts[title]
           cnt    == IF gh[i].Closed THEN [counts EXCEPT !.closed = @ + 1]
                     ELSE [counts EXCEPT !.open = @ + 1]
           titles == DOMAIN st.parsed \cup {title}
       IN  [parsed   |-> [t \in titles |->
                            IF t = title THEN MdLabels(byCmp, gh[i].Labels, 1, i)
                            ELSE st.parsed[t]],
            msCounts |-> [t \in titles |-> IF t = title THEN cnt ELSE st.msCounts[t]]]

RECURSIVE MdLoop(_, _, _)
MdLoop(st, gh, i) ==
  IF i > Len(gh) THEN st ELSE MdLoop(MdStep(st, gh, i), gh, i + 1)

\* the keys of the map in sort.Strings order
sortedCmpKeys(mp) ==
  LET keys == DOMAIN mp
      n    == Cardinality(keys)
  IN  CHOOSE sl \in [1..n -> keys] :
        \A i, j \in 1..n : i < j => StrLess(sl[i], sl[j])

\* what the print loop can write for one requested milestone that is present
MdBlocks(st, gh, name) ==
  LET cmpKeys == sortedCmpKeys(st.parsed[name])
      perCmp  == [k \in 1..Len(cmpKeys) |->
                    {[Name |-> cmpKeys[k], Issues |-> o] :
                       o \in SortIssues(gh, st.parsed[name][cmpKeys[k]])}]
  IN  {[Title      |-> name,
        Closed     |-> st.msCounts[name].closed,
        Total      |-> st.msCounts[name].open + st.msCounts[name].closed,
        Components |-> cs] : cs \in Product(perCmp)}

\* Selected with a name taken once only
SelectedOnce(names, present) ==
  LET F[k \in 0..Len(names)] ==
        IF k = 0 THEN <<>>
        ELSE IF names[k] \in present /\ names[k] \notin {F[k - 1][j] : j \in 1..Len(F[k - 1])}
             THEN Append(F[k - 1], names[k]) ELSE F[k - 1]
  IN  F[Len(names)]

\* the requested names that are keys of the map, in the requested order
Selected(names, present) ==
  LET F[k \in 0..Len(names)] ==
        IF k = 0 THEN <<>>
        ELSE IF names[k] \in present THEN Append(F[k - 1], names[k]) ELSE F[k - 1]
  IN  F[Len(names)]

\* printIssues of main.go: the block sequences it can print
mdPrintIssues(gh, names) ==
  LET st  == MdLoop([parsed |-> <<>>, msCounts |-> <<>>], gh, 1)
      sel == Selected(names, DOMAIN st.parsed)
  IN  Product([k \in 1..Len(sel) |-> MdBlocks(st, gh, sel[k])])

\* printIssues of part_000: the milestone slices sl it can hand to the template
estPrintIssues(gh, names) ==
  {LET sel == Selected(names, DOMAIN r) IN [k \in 1..Len(sel) |-> r[sel[k]]] :
     r \in parseIssues(gh)}

Rendered(v, gh, names) ==
  IF v = "md" THEN mdPrintIssues(gh, names) ELSE estPrintIssues(gh, names)

(***************************************************************************)
(* The environment of a run                                                *)
(***************************************************************************)
Variants == {"md", "est"}

TitleA == <<"a">>
TitleB == <<"b">>
LabelX == PrefixComponent \o <<"x">>
LabelY == PrefixComponent \o <<"y">>
LabelNoName == PrefixComponent

Paths == {<<>>, <<"f">>}
RepoFlags == {<<>>, <<"o">>, <<"o", "/", "r">>}
FlagChars == {"a", "b", ","}

\* the issues the tracker or the cache file holds in the run specification;
\* the one that has a milestone has no component, so that a list that
\* repeats it has one report
RunIssues == {Issue(1, <<TitleA>>, FALSE, FALSE, <<PrefixType \o <<"x">>>>),
              Issue(2, Nil, TRUE, FALSE, <<LabelX>>)}

\* what one response of the tracker can hold, and the NextPage it can name
Pages == SeqsUpTo(RunIssues, 1) \cup {[i \in 1..2 |-> Issue(i, <<TitleA>>, FALSE, FALSE, <<>>)]}
NextPages == {0, 2, 3}

\* the -milestones flags of the run specification
RunFlags == {<<"a">>, <<"b", ",", "a">>}

NoOutput == [text |-> FALSE, blocks |-> <<>>]
NoCache == [state |-> "none", data |-> <<>>]

(***************************************************************************)
(* run                                                                     *)
(***************************************************************************)
Init ==
  /\ variant \in Variants
  /\ fromFile \in Paths
  /\ out \in Paths
  /\ repo \in RepoFlags
  /\ milestones \in RunFlags
  /\ pc = "start"
  /\ ms = <<>>
  /\ page = 0
  /\ requested = <<>>
  /\ allIssues = <<>>
  /\ issues = <<>>
  /\ err = "nil"
  /\ stdout = NoOutput
  /\ cache = NoCache
  /\ exit = "none"

\* Fail without os.Exit(1)
FailQuiet(e) ==
  /\ err' = e
  /\ pc' = "done"
  /\ exit' = "0"

\* main's error branch: run returned e, log it and os.Exit(1)
Fail(e) ==
  /\ err' = e
  /\ pc' = "done"
  /\ exit' = "1"

\* run, from-file branch: readIssues returns the decoded list
RunFromFile ==
  /\ pc = "start"
  /\ fromFile # <<>>
  /\ ms' = Split(milestones, ",")
  /\ \E content \in SeqsUpTo(RunIssues, MaxIssues) : issues' = content
  /\ pc' = "print"
  /\ UNCHANGED <<flagVars, page, requested, allIssues, err, stdout, cache, exit>>

\* run, from-file branch: ReadFile or Unmarshal fails
RunFromFileFail ==
  /\ pc = "start"
  /\ fromFile # <<>>
  /\ ms' = Split(milestones, ",")
  /\ \E e \in {"io", "format"} : Fail(e)
  /\ UNCHANGED <<flagVars, page, requested, allIssues, issues, stdout, cache>>

\* RunSplitRepo returning an error for a repo flag without "/"
RunSplitRepoChecked ==
  /\ pc = "start"
  /\ fromFile = <<>>
  /\ ms' = Split(milestones, ",")
  /\ IF Len(SplitN2(repo, "/")) < 2
     THEN /\ Fail("repo")
          /\ page' = page
     ELSE /\ pc' = "fetch"
          /\ page' = 1
          /\ UNCHANGED <<exit, err>>
  /\ UNCHANGED <<flagVars, requested, allIssues, issues, stdout, cache>>

\* run, fetch branch: split the repo flag and enter allIssues with page = 1;
\* repoParts[1] panics when the flag holds no "/"
RunSplitRepo ==
  /\ pc = "start"
  /\ fromFile = <<>>
  /\ ms' = Split(milestones, ",")
  /\ IF Len(SplitN2(repo, "/")) < 2
     THEN /\ pc' = "done"
          /\ exit' = "2"
          /\ err' = "panic"
          /\ page' = page
     ELSE /\ pc' = "fetch"
          /\ page' = 1
          /\ UNCHANGED <<exit, err>>
  /\ UNCHANGED <<flagVars, requested, allIssues, issues, stdout, cache>>

\* ListByRepo putting the new page in front of the pages received before
ListByRepoPrepend ==
  /\ pc = "fetch"
  /\ Len(requested) < MaxRequests
  /\ \E iss \in Pages, next \in NextPages :
       /\ requested' = Append(requested, [page |-> page, ok |-> TRUE, issues |-> iss, next |-> next])
       /\ allIssues' = iss \o allIssues
       /\ page' = next
       /\ IF next = 0
          THEN issues' = allIssues' /\ pc' = "print"
          ELSE UNCHANGED <<issues, pc>>
  /\ UNCHANGED <<flagVars, ms, err, stdout, cache, exit>>

\* allIssues, one turn of the loop with a successful response
ListByRepo ==
  /\ pc = "fetch"
  /\ Len(requested) < MaxRequests
  /\ \E iss \in Pages, next \in NextPages :
       /\ requested' = Append(requested, [page |-> page, ok |-> TRUE, issues |-> iss, next |-> next])
       /\ allIssues' = allIssues \o iss
       /\ page' = next
       /\ IF next = 0
          THEN issues' = allIssues' /\ pc' = "print"
          ELSE UNCHANGED <<issues, pc>>
  /\ UNCHANGED <<flagVars, ms, err, stdout, cache, exit>>

\* ListByRepoFail handing back the pages received so far
ListByRepoFailPartial ==
  /\ pc = "fetch"
  /\ Len(requested) < MaxRequests
  /\ requested' = Append(requested, [page |-> page, ok |-> FALSE, issues |-> <<>>, next |-> 0])
  /\ issues' = allIssues
  /\ err' = "transport"
  /\ pc' = "done"
  /\ exit' = "1"
  /\ UNCHANGED <<flagVars, ms, page, allIssues, stdout, cache>>

\* allIssues, one turn of the loop with a failed request: return nil, err
ListByRepoFail ==
  /\ pc = "fetch"
  /\ Len(requested) < MaxRequests
  /\ requested' = Append(requested, [page |-> page, ok |-> FALSE, issues |-> <<>>, next |-> 0])
  /\ issues' = Nil
  /\ Fail("transport")
  /\ UNCHANGED <<flagVars, ms, page, allIssues, stdout, cache>>

AfterPrint ==
  IF out # <<>>
  THEN pc' = "write" /\ UNCHANGED exit
  ELSE pc' = "done" /\ exit' = "0"

\* printIssues returns nil
PrintIssues ==
  /\ pc = "print"
  /\ \E blocks \in Rendered(variant, issues, ms) :
       stdout' = [text |-> variant = "est" \/ blocks # <<>>, blocks |-> blocks]
  /\ AfterPrint
  /\ UNCHANGED <<flagVars, ms, page, requested, allIssues, issues, err, cache>>

\* printIssues of main.go drops the error of every fmt.Printf: when writes to
\* standard output fail, a leading part of the report is there and
\* printIssues returns nil all the same
PrintIssuesShort ==
  /\ pc = "print"
  /\ variant = "md"
  /\ \E blocks \in Rendered(variant, issues, ms), t \in BOOLEAN :
       \E k \in 0..(Len(blocks) - 1) :
         stdout' = [text |-> t \/ k > 0, blocks |-> SubSeq(blocks, 1, k)]
  /\ AfterPrint
  /\ UNCHANGED <<flagVars, ms, page, requested, allIssues, issues, err, cache>>

\* printIssues of part_000 returns the error of tbl.Execute: the template
\* had written some leading part of its output when the write failed
PrintIssuesFail ==
  /\ pc = "print"
  /\ variant = "est"
  /\ \E blocks \in Rendered(variant, issues, ms), t \in BOOLEAN :
       \E k \in 0..Len(blocks) :
         stdout' = [text |-> t \/ k > 0, blocks |-> SubSeq(blocks, 1, k)]
  /\ Fail("render")
  /\ UNCHANGED <<flagVars, ms, page, requested, allIssues, issues, cache>>

\* writeIssues returns nil
WriteIssues ==
  /\ pc = "write"
  /\ cache' = [state |-> "complete", data |-> issues]
  /\ pc' = "done"
  /\ exit' = "0"
  /\ UNCHANGED <<flagVars, ms, page, requested, allIssues, issues, err, stdout>>

\* writeIssues returns an error: the file was not created, or was cut short
WriteIssuesFail ==
  /\ pc = "write"
  /\ \E st \in {"none", "partial"} : cache' = [state |-> st, data |-> <<>>]
  /\ Fail("write")
  /\ UNCHANGED <<flagVars, ms, page, requested, allIssues, issues, stdout>>

Next ==
  \/ RunFromFile
  \/ RunFromFileFail
  \/ RunSplitRepo
  \/ ListByRepo
  \/ ListByRepoFail
  \/ PrintIssues
  \/ PrintIssuesShort
  \/ PrintIssuesFail
  \/ WriteIssues
  \/ WriteIssuesFail

Spec == Init /\ [][Next]_vars

\* the runs that fetch and write no cache file, as the process that executes
\* them: the loop of allIssues goes on while it can
InitFetch ==
  /\ Init
  /\ fromFile = <<>>
  /\ out = <<>>
  /\ milestones = <<"a">>

NextFetch ==
  \/ RunSplitRepo
  \/ ListByRepo
  \/ ListByRepoFail
  \/ PrintIssues
  \/ PrintIssuesShort
  \/ PrintIssuesFail

SpecFetch == InitFetch /\ [][NextFetch]_vars /\ WF_vars(ListByRepo \/ ListByRepoFail)

(***************************************************************************)
(* printIssues on its own: the run stands before its call of printIssues,  *)
(* with an issue list drawn from a bounded set and nothing to write after. *)
(***************************************************************************)
Est2d == PrefixEstimate \o <<"2", "d">>
FlagAB == <<"a", ",", "b">>
FlagABEmpty == <<"a", ",", "b", ",">>
Milestones == {Nil, <<TitleA>>, <<TitleB>>}

\* issue lists numbered 1, 2, ... in input order
Numbered(attrs, n) ==
  {[i \in DOMAIN l |-> [l[i] EXCEPT !.Number = i]] : l \in SeqsUpTo(attrs, n)}

BeforePrint(variants, flags, lists) ==
  /\ variant \in variants
  /\ fromFile = <<"f">>
  /\ out = <<>>
  /\ repo = <<>>
  /\ milestones \in flags
  /\ ms = Split(milestones, ",")
  /\ issues \in lists
  /\ pc = "print"
  /\ page = 0
  /\ requested = <<>>
  /\ allIssues = <<>>
  /\ err = "nil"
  /\ stdout = NoOutput
  /\ cache = NoCache
  /\ exit = "none"

NextPrint == PrintIssues \/ PrintIssuesShort \/ PrintIssuesFail

\* the same for part_000 alone
NextPrintEst == PrintIssues \/ PrintIssuesFail

\* counting: milestone or none, open or closed, component and estimate labels
CountLabels == {<<>>, <<LabelX>>, <<Est2d>>, <<LabelX, Est2d>>}

CountIssues ==
  {Issue(0, m, c, FALSE, l) : m \in Milestones, c \in BOOLEAN, l \in CountLabels}

InitCount == BeforePrint(Variants, {FlagABEmpty}, Numbered(CountIssues, MaxIssues))

SpecCount == InitCount /\ [][NextPrint]_vars

\* attribution: zero, one or several component labels, or a nameless one
CompLabels ==
  SeqsUpTo({LabelX, LabelY}, MaxLabels) \cup {<<LabelNoName>>, <<LabelX, LabelNoName>>}

CompIssues ==
  {Issue(0, <<t>>, FALSE, FALSE, l) : t \in {TitleA, TitleB}, l \in CompLabels}

InitComp == BeforePrint(Variants, {FlagAB}, Numbered(CompIssues, MaxIssues))

SpecComp == InitComp /\ [][NextPrint]_vars

\* ordering: one component, every number, status and assignment
SortNumbers == {2, 5, 9}

OrderIssues ==
  {Issue(n, <<TitleA>>, c, a, <<LabelX>>) : n \in SortNumbers, c \in BOOLEAN, a \in BOOLEAN}

InitSort == BeforePrint(Variants, {FlagAB}, SeqsUpTo(OrderIssues, MaxSortLen))

SpecSort == InitSort /\ [][NextPrint]_vars

\* estimates: one open issue whose labels are spelled out of EstChars, or
\* are one of the examples
EstChars == {"2", "w"}
EstExamples == {<<"3", "d">>, <<"2", "d">>, <<"b", "o", "g", "u", "s">>, <<"0", "d">>,
                <<"1", "0", "d">>, <<"0", "2", "w">>, <<"-", "2", "d">>, <<"+", "2", "d">>,
                <<" ", "2", "d", " ">>, <<"2", " ", "d">>, <<"2", "D">>,
                <<"2", "d", "\f">>, <<"", "2", "w">>, <<" ", "2", "d", "">>}
EstLabels ==
  {PrefixEstimate \o v : v \in SeqsUpTo(EstChars, MaxEstLen) \cup EstExamples} \cup {LabelX}

InitEstimate ==
  BeforePrint({"est"}, {FlagAB},
              {<<Issue(1, <<TitleA>>, FALSE, FALSE, l)>> : l \in SeqsUpTo(EstLabels, MaxLabels)})

SpecEstimate == InitEstimate /\ [][NextPrintEst]_vars

\* selection: every requested list spelled out of FlagChars
SelectIssues == {Issue(0, m, FALSE, FALSE, <<LabelX>>) : m \in Milestones}

InitSelect ==
  BeforePrint(Variants, SeqsUpTo(FlagChars, MaxFlagLen), Numbered(SelectIssues, MaxIssues))

SpecSelect == InitSelect /\ [][NextPrint]_vars

\* input order: issues with distinct numbers; those of milestone a are open
\* or closed, assigned or not, of component x or of component y with an
\* estimate
PermIssues ==
  {Issue(0, <<TitleA>>, c, a, l) :
     c \in BOOLEAN, a \in BOOLEAN, l \in {<<LabelX>>, <<LabelY, Est2d>>}}
  \cup {Issue(0, <<TitleB>>, FALSE, FALSE, <<LabelX>>)}

InitPerm == BeforePrint({"est"}, {FlagAB}, Numbered(PermIssues, MaxSortLen))

SpecPerm == InitPerm /\ [][NextPrintEst]_vars

\* printIssues has returned nil
Returned == pc \in {"write", "done"} /\ err \in {"nil", "write"}

\* printIssues has returned nil and every write to standard output went
\* through: stdout holds the whole report
Printed == Returned /\ stdout.blocks \in Rendered(variant, issues, ms)

\* printIssues has returned nil after writes to standard output failed
CutShort == Returned /\ stdout.blocks \notin Rendered(variant, issues, ms)

IsPrefix(a, b) == Len(a) <= Len(b) /\ a = SubSeq(b, 1, Len(a))

(***************************************************************************)
(* Reading the report                                                      *)
(***************************************************************************)
BlockTotal(b) == IF variant = "md" THEN b.Total ELSE b.Stats.Total
BlockClosed(b) == IF variant = "md" THEN b.Closed ELSE b.Stats.Closed

\* the places <<block, component, position>> of the report that show issue i
Places(blocks, i) ==
  {p \in UNION {UNION {{<<n, k, j>> : j \in 1..Len(blocks[n].Components[k].Issues)} :
                         k \in 1..Len(blocks[n].Components)} : n \in 1..Len(blocks)} :
     blocks[p[1]].Components[p[2]].Issues[p[3]].ref = i}

\* the report with every entry naming its issue by number instead of by index
View(blocks, gh) ==
  [n \in 1..Len(blocks) |->
     [blocks[n] EXCEPT !.Components =
        [k \in 1..Len(@) |->
           [@[k] EXCEPT !.Issues =
              [j \in 1..Len(@) |-> [@[j] EXCEPT !.ref = gh[@].Number]]]]]]

Without(s, i) == SubSeq(s, 1, i - 1) \o SubSeq(s, i + 1, Len(s))

\* the input issues that carry the milestone title t
Carrying(gh, t) == {i \in 1..Len(gh) : gh[i].Milestone = <<t>>}

\* the names of the "component: " labels of an issue, in label order
RECURSIVE ComponentNames(_)
ComponentNames(labels) ==
  IF labels = <<>> THEN <<>>
  ELSE (IF HasPrefix(labels[1], PrefixComponent)
        THEN <<From(labels[1], 11)>> ELSE <<>>) \o ComponentNames(Tail(labels))

Range(s) == {s[i] : i \in 1..Len(s)}

(***************************************************************************)
(* C1 - an issue with no milestone contributes nothing: it is shown in no  *)
(* component list, and the report is the report of the list without it.    *)
(***************************************************************************)
\* C1: an issue without milestone is shown nowhere and changes nothing
ExclusionHolds ==
  Printed =>
    \A i \in 1..Len(issues) :
      issues[i].Milestone = Nil =>
        /\ Places(stdout.blocks, i) = {}
        /\ View(stdout.blocks, issues) \in
             {View(b, Without(issues, i)) : b \in Rendered(variant, Without(issues, i), ms)}

ExclusionWitness ==
  /\ Printed
  /\ Len(issues) = 2
  /\ issues[1].Milestone = Nil
  /\ ~issues[1].Closed
  /\ issues[1].Labels = <<LabelX, Est2d>>
  /\ issues[2].Milestone = <<TitleA>>
  /\ Len(stdout.blocks) = 1
  /\ BlockTotal(stdout.blocks[1]) = 1

(***************************************************************************)
(* C2 - every milestone and every component has total = closed + open,     *)
(* counted over the issues attributed to it: for a milestone, all input    *)
(* issues carrying its title, with or without a component label.           *)
(***************************************************************************)
\* C2: total = closed + open for every milestone and component
CountersHold ==
  Printed =>
    \A n \in 1..Len(stdout.blocks) :
      LET b      == stdout.blocks[n]
          mine   == Carrying(issues, b.Title)
          closed == {i \in mine : issues[i].Closed}
          open   == {i \in mine : ~issues[i].Closed}
      IN  /\ BlockTotal(b) = Cardinality(mine)
          /\ BlockClosed(b) = Cardinality(closed)
          /\ BlockTotal(b) = BlockClosed(b) + Cardinality(open)
          /\ variant = "est" =>
               \A k \in 1..Len(b.Components) :
                 LET c   == b.Components[k]
                     cl  == {j \in 1..Len(c.Issues) : issues[c.Issues[j].ref].Closed}
                     op  == {j \in 1..Len(c.Issues) : ~issues[c.Issues[j].ref].Closed}
                 IN  /\ c.Stats.Total = Len(c.Issues)
                     /\ c.Stats.Closed = Cardinality(cl)
                     /\ c.Stats.Total = c.Stats.Closed + Cardinality(op)

CountersWitness ==
  /\ Printed
  /\ variant = "est"
  /\ \E n \in 1..Len(stdout.blocks) :
       LET b == stdout.blocks[n]
       IN  /\ b.Stats.Total = 2
           /\ b.Stats.Closed = 1
           /\ Len(b.Components) = 1
           /\ b.Components[1].Stats.Total = 1
           /\ b.Components[1].Stats.Closed = 1

(***************************************************************************)
(* C3 - every component's issue list is ascending by (closed, assigned,    *)
(* number), false before true.                                             *)
(***************************************************************************)
InOrder(a, b) ==
  \/ ~a.Closed /\ b.Closed
  \/ a.Closed = b.Closed /\ ~a.Assigned /\ b.Assigned
  \/ a.Closed = b.Closed /\ a.Assigned = b.Assigned /\ a.Number <= b.Number

\* C3: adjacent issues of every component list are in (closed, assigned, number) order
IssuesSorted ==
  Printed =>
    \A n \in 1..Len(stdout.blocks) :
      \A k \in 1..Len(stdout.blocks[n].Components) :
        LET l == stdout.blocks[n].Components[k].Issues
        IN  \A j \in 1..(Len(l) - 1) : InOrder(issues[l[j].ref], issues[l[j + 1].ref])

\* {5, open, unassigned}, {2, open, assigned}, {9, closed, unassigned},
\* handed over as 9, 2, 5, come out as [5, 2, 9]
IssuesSortedWitness ==
  /\ Printed
  /\ issues = <<Issue(9, <<TitleA>>, TRUE, FALSE, <<LabelX>>),
                Issue(2, <<TitleA>>, FALSE, TRUE, <<LabelX>>),
                Issue(5, <<TitleA>>, FALSE, FALSE, <<LabelX>>)>>
  /\ Len(stdout.blocks) = 1
  /\ [j \in 1..3 |-> issues[stdout.blocks[1].Components[1].Issues[j].ref].Number] = <<5, 2, 9>>

(***************************************************************************)
(* C4 - the components of a milestone are in strictly ascending order of   *)
(* name, and their names are the component names attributed to the issues  *)
(* of that milestone.                                                      *)
(***************************************************************************)
\* "md" files an issue under every component label, "est" under the last one
\* unless its name is empty
AttributedNames(g) ==
  LET names == ComponentNames(g.Labels)
  IN  IF variant = "md" THEN Range(names)
      ELSE IF names = <<>> THEN {}
      ELSE {names[Len(names)]} \ {<<>>}

\* C4: component names strictly ascending and exactly the attributed names
ComponentsSorted ==
  Printed =>
    \A n \in 1..Len(stdout.blocks) :
      LET b == stdout.blocks[n]
      IN  /\ \A k \in 1..(Len(b.Components) - 1) :
               StrLess(b.Components[k].Name, b.Components[k + 1].Name)
          /\ {b.Components[k].Name : k \in 1..Len(b.Components)} =
               UNION {AttributedNames(issues[i]) : i \in Carrying(issues, b.Title)}

\* the first issue brings component y, the second component x
ComponentsSortedWitness ==
  /\ Printed
  /\ Len(issues) = 2
  /\ issues[1].Milestone = <<TitleA>> /\ issues[1].Labels = <<LabelY>>
  /\ issues[2].Milestone = <<TitleA>> /\ issues[2].Labels = <<LabelX>>
  /\ Len(stdout.blocks) = 1
  /\ [k \in 1..2 |-> stdout.blocks[1].Components[k].Name] = <<<<"x">>, <<"y">>>>

(***************************************************************************)
(* C5 - an issue with a milestone is shown at most once in the whole       *)
(* report: exactly once, under the component its last "component: " label  *)
(* names, when it has such a label, and nowhere when it has none, while    *)
(* its milestone's total still counts it.                                  *)
(***************************************************************************)
\* C5: shown exactly once under the last component label, or nowhere without one
AttributedOnce ==
  Printed =>
    \A i \in 1..Len(issues) :
      issues[i].Milestone # Nil =>
        LET names  == ComponentNames(issues[i].Labels)
            places == Places(stdout.blocks, i)
        IN  /\ \A n \in 1..Len(stdout.blocks) :
                 stdout.blocks[n].Title = issues[i].Milestone[1] =>
                   BlockTotal(stdout.blocks[n]) =
                     Cardinality(Carrying(issues, stdout.blocks[n].Title))
            /\ IF names = <<>> THEN places = {}
               ELSE /\ Cardinality(places) = 1
                    /\ \A p \in places :
                         /\ stdout.blocks[p[1]].Title = issues[i].Milestone[1]
                         /\ stdout.blocks[p[1]].Components[p[2]].Name = names[Len(names)]

(***************************************************************************)
(* C6 - the Days of an issue.  What one "estimate: " label is worth is     *)
(* stated from the decimal notation: the trimmed value is a numeral of a   *)
(* positive n followed by d (n days) or w (5 n days); anything else is 0.  *)
(***************************************************************************)
RECURSIVE Itoa(_)
Itoa(n) ==
  IF n < 10 THEN <<AsciiTable[17 + n]>>
  ELSE Append(Itoa(n \div 10), AsciiTable[17 + (n % 10)])

RECURSIVE Pow10(_)
Pow10(k) == IF k = 0 THEN 1 ELSE 10 * Pow10(k - 1)

\* body writes n: an optional +, leading zeros, the digits of n
Denotes(body, n) ==
  \E sign \in {<<>>, <<"+">>} :
    LET z == Len(body) - Len(sign) - Len(Itoa(n))
    IN  z >= 0 /\ body = sign \o [i \in 1..z |-> "0"] \o Itoa(n)

LabelDays(lbl) ==
  LET v    == TrimSpace(From(lbl, 10))
      body == SubSeq(v, 1, Len(v) - 1)
      ns   == {n \in 1..(Pow10(Len(body)) - 1) : Denotes(body, n)}
  IN  IF v # <<>> /\ v[Len(v)] \in {"d", "w"} /\ ns # {}
      THEN (CHOOSE n \in ns : TRUE) * (IF v[Len(v)] = "d" THEN 1 ELSE 5)
      ELSE 0

RECURSIVE EstimateLabels(_)
EstimateLabels(labels) ==
  IF labels = <<>> THEN <<>>
  ELSE (IF HasPrefix(labels[1], PrefixEstimate) THEN <<labels[1]>> ELSE <<>>)
       \o EstimateLabels(Tail(labels))

SumSeq(s) ==
  LET F[k \in 0..Len(s)] == IF k = 0 THEN 0 ELSE F[k - 1] + s[k]
  IN  F[Len(s)]

\* the worth of all the estimate labels of an issue together
SumDays(labels) ==
  LET est == EstimateLabels(labels)
  IN  SumSeq([k \in 1..Len(est) |-> LabelDays(est[k])])

\* the worth of one of the estimate labels, or 0 when there is none
OneLabelDays(labels) ==
  LET est == EstimateLabels(labels)
  IN  IF est = <<>> THEN {0} ELSE {LabelDays(est[k]) : k \in 1..Len(est)}

\* the Days the report shows for issue i: on its entries, and as the Days
\* of its milestone when it is the milestone's only issue and open
ShownDays(i) ==
  {stdout.blocks[p[1]].Components[p[2]].Issues[p[3]].Days : p \in Places(stdout.blocks, i)}
  \cup {stdout.blocks[n].Stats.Days : n \in
          {n \in 1..Len(stdout.blocks) :
             Carrying(issues, stdout.blocks[n].Title) = {i} /\ ~issues[i].Closed}}

\* C6 as claimed: the Days of an issue is what one estimate label is worth,
\* whatever the label set, several estimate labels included
DaysFromOneLabel ==
  (Printed /\ variant = "est") =>
    \A i \in 1..Len(issues) : ShownDays(i) \subseteq OneLabelDays(issues[i].Labels)

\* C6 as amended: the Days of an issue is the sum of what each of its
\* estimate labels is worth (n for nd, 5n for nw, 0 otherwise)
DaysSummed ==
  (Printed /\ variant = "est") =>
    \A i \in 1..Len(issues) : ShownDays(i) \subseteq {SumDays(issues[i].Labels)}

DaysSummedWitness ==
  /\ Printed
  /\ variant = "est"
  /\ issues[1].Labels = <<PrefixEstimate \o <<"2", "d">>, PrefixEstimate \o <<"2", "w">>>>
  /\ ShownDays(1) = {12}

(***************************************************************************)
(* C7 - a milestone's Days is the sum of Days over its open issues, a      *)
(* component's Days the sum over the open issues of its list; a closed     *)
(* issue adds to neither and keeps its own Days.                           *)
(***************************************************************************)
\* C7: Days counters sum the Days of open issues only; entries keep their Days
DaysCounted ==
  (Printed /\ variant = "est") =>
    \A n \in 1..Len(stdout.blocks) :
      LET b == stdout.blocks[n]
      IN  /\ b.Stats.Days =
               SumSeq([i \in 1..Len(issues) |->
                         IF i \in Carrying(issues, b.Title) /\ ~issues[i].Closed
                         THEN SumDays(issues[i].Labels) ELSE 0])
          /\ \A k \in 1..Len(b.Components) :
               LET c == b.Components[k]
               IN  /\ c.Stats.Days =
                        SumSeq([j \in 1..Len(c.Issues) |->
                                  IF issues[c.Issues[j].ref].Closed
                                  THEN 0 ELSE c.Issues[j].Days])
                   /\ \A j \in 1..Len(c.Issues) :
                        c.Issues[j].Days = SumDays(issues[c.Issues[j].ref].Labels)

\* a closed and an open issue of one component, each estimated at 2 days
DaysCountedWitness ==
  /\ Printed
  /\ variant = "est"
  /\ Len(issues) = 2
  /\ \A i \in 1..2 : issues[i].Milestone = <<TitleA>> /\ issues[i].Labels = <<LabelX, Est2d>>
  /\ issues[1].Closed /\ ~issues[2].Closed
  /\ Len(stdout.blocks) = 1
  /\ stdout.blocks[1].Stats.Days = 2
  /\ stdout.blocks[1].Components[1].Stats.Days = 2
  /\ \A j \in 1..2 : stdout.blocks[1].Components[1].Issues[j].Days = 2

(***************************************************************************)
(* C8 - the milestones rendered are the requested names, in the requested  *)
(* order and with their repetitions, without the names that are the title  *)
(* of no fetched issue.                                                    *)
(***************************************************************************)
RECURSIVE Keep(_, _)
Keep(names, S) ==
  IF names = <<>> THEN <<>>
  ELSE (IF names[1] \in S THEN <<names[1]>> ELSE <<>>) \o Keep(Tail(names), S)

TitlesPresent == {issues[i].Milestone[1] : i \in {i \in 1..Len(issues) : issues[i].Milestone # Nil}}

\* C8: the rendered titles are the requested names that some issue carries, in order
SelectionHolds ==
  Printed =>
    /\ [n \in 1..Len(stdout.blocks) |-> stdout.blocks[n].Title] = Keep(ms, TitlesPresent)
    /\ \A n \in 1..Len(stdout.blocks) :
         BlockTotal(stdout.blocks[n]) = Cardinality(Carrying(issues, stdout.blocks[n].Title))

\* "b,a,b" asked for, b being the title of no issue: a alone is rendered
SelectionWitness ==
  /\ Printed
  /\ ms = <<TitleB, TitleA, TitleB>>
  /\ TitlesPresent = {TitleA}
  /\ [n \in 1..Len(stdout.blocks) |-> stdout.blocks[n].Title] = <<TitleA>>

(***************************************************************************)
(* C9 - a failed page request, whichever it is, ends the fetch with the    *)
(* error and no issues: it is the last request, nothing is rendered and no *)
(* cache file is written.                                                  *)
(***************************************************************************)
\* C9: a failed request is the last one and leaves no issues, no output, no cache
FetchFailureHolds ==
  \A k \in 1..Len(requested) :
    ~requested[k].ok =>
      /\ k = Len(requested)
      /\ err = "transport"
      /\ issues = <<>>
      /\ pc = "done"
      /\ exit = "1"
      /\ stdout = NoOutput
      /\ cache = NoCache

\* the third request fails after two pages brought issues; a cache was asked for
FetchFailureWitness ==
  /\ Len(requested) = 3
  /\ ~requested[3].ok
  /\ Len(allIssues) = 2
  /\ out # <<>>
  /\ err = "transport"

(***************************************************************************)
(* C10 - a run that ends with an error exits nonzero.                      *)
(***************************************************************************)
\* C10 as claimed: after a fetch, cache read or cache write failure the exit
\* status is nonzero and nothing has been written to standard output
ErrorMeansNoOutput ==
  (pc = "done" /\ err \in {"transport", "io", "format", "write"}) =>
    exit = "1" /\ stdout = NoOutput

\* C10 as amended: after a fetch or cache read failure the exit status is
\* nonzero and nothing has been written to standard output; after a cache
\* write failure the exit status is nonzero and the report was written
\* before the cache: standard output holds it, whole unless writes to
\* standard output failed under main.go, which goes on regardless
ErrorExit ==
  /\ (pc = "done" /\ err \in {"transport", "io", "format"}) =>
       exit = "1" /\ stdout = NoOutput
  /\ (pc = "done" /\ err = "write") =>
       /\ exit = "1"
       /\ \E b \in Rendered(variant, issues, ms) : IsPrefix(stdout.blocks, b)
       /\ variant = "est" => Printed /\ stdout.text

ErrorExitWitness ==
  /\ pc = "done"
  /\ err = "write"
  /\ exit = "1"
  /\ stdout.blocks # <<>>

(***************************************************************************)
(* C11 - the fetch asks for page 1, then for the page each response names, *)
(* and stops at the first response that names page 0; its result is the    *)
(* pages' issues one after the other.  The model stops asking after        *)
(* MaxRequests requests: an upstream that has not named page 0 by then is  *)
(* one that never does within the bound.                                   *)
(***************************************************************************)
RECURSIVE Concat(_)
Concat(pages) ==
  IF pages = <<>> THEN <<>> ELSE Concat(SubSeq(pages, 1, Len(pages) - 1)) \o pages[Len(pages)].issues

\* the upstream has answered MaxRequests requests and never named page 0
Exhausted == pc = "fetch" /\ Len(requested) = MaxRequests

FetchInOrder ==
  /\ requested # <<>> => requested[1].page = 1
  /\ \A k \in 1..(Len(requested) - 1) :
       /\ requested[k].ok
       /\ requested[k].next # 0
       /\ requested[k + 1].page = requested[k].next
  /\ pc = "fetch" =>
       /\ allIssues = Concat(requested)
       /\ page = IF requested = <<>> THEN 1 ELSE requested[Len(requested)].next
       /\ page # 0
  /\ (requested # <<>> /\ requested[Len(requested)].ok /\ requested[Len(requested)].next = 0) =>
       /\ pc \notin {"start", "fetch"}
       /\ issues = Concat(requested)

\* C11: pages are requested 1, then as each response names, up to the first
\* response naming 0; unless a request fails or the upstream never names 0,
\* the fetch ends and returns the pages' issues concatenated in order
FetchCompletes ==
  /\ []FetchInOrder
  /\ ([]~Exhausted) =>
       ((pc = "fetch") ~> (pc # "fetch" /\ (err = "transport" \/ issues = Concat(requested))))

\* three requests, for pages 1, 3 and 2 as the responses named them; the
\* second page held two issues, and the result has the three in order received
FetchCompletesWitness ==
  /\ Len(requested) = 3
  /\ [k \in 1..3 |-> requested[k].page] = <<1, 3, 2>>
  /\ requested[3].next = 0
  /\ [k \in 1..Len(issues) |-> issues[k].Number] = <<2, 1, 2>>
  /\ Len(requested[2].issues) = 2
  /\ pc = "print"

(***************************************************************************)
(* C12 - without a cache file to read, a repo flag that has no "/" stops   *)
(* the run at repoParts[1], before the first request; with a cache file    *)
(* the repo flag is not looked at.                                         *)
(***************************************************************************)
HasSlash(s) == \E i \in 1..Len(s) : s[i] = "/"

Panicked == pc = "done" /\ err = "panic" /\ exit = "2"

\* C12: no -from-file and no "/" in -repo: the run panics before any request,
\* returning no error; with -from-file nothing is requested whatever -repo is,
\* and the report is that of the issues read
RepoSplitHolds ==
  /\ (fromFile = <<>> /\ ~HasSlash(repo) /\ pc # "start") =>
       /\ Panicked
       /\ requested = <<>>
       /\ page = 0
       /\ issues = <<>>
       /\ stdout = NoOutput
       /\ cache = NoCache
  /\ (fromFile = <<>> /\ HasSlash(repo)) => ~Panicked
  /\ fromFile # <<>> =>
       /\ ~Panicked /\ err # "panic" /\ exit # "2"
       /\ requested = <<>>
       /\ page = 0
       /\ allIssues = <<>>
       /\ pc # "fetch"
       /\ Returned =>
            \E b \in Rendered(variant, issues, Split(milestones, ",")) : IsPrefix(stdout.blocks, b)

\* the empty repo flag, with a cache file asked for
RepoSplitWitness ==
  /\ fromFile = <<>>
  /\ repo = <<>>
  /\ out # <<>>
  /\ Panicked
  /\ ms = <<<<"b">>, <<"a">>>>

(***************************************************************************)
(* C13 - parseIssues of part_000 gives the same result for every order of  *)
(* an input whose issues have distinct numbers.                            *)
(***************************************************************************)
\* the bijections of 1..n, as sequences
Perms(n) == {p \in [1..n -> 1..n] : \A i, j \in 1..n : p[i] = p[j] => i = j}

\* C13: whichever order the issues are given in, the report is the one
\* printed: same milestones and counters, same components in the same order,
\* same issue numbers in the same order
OrderIndependent ==
  (Printed /\ variant = "est") =>
    \A p \in Perms(Len(issues)) :
      LET q == [i \in 1..Len(issues) |-> issues[p[i]]]
      IN  {View(b, q) : b \in Rendered("est", q, ms)} = {View(stdout.blocks, issues)}

\* three issues of one milestone given as 1, 2, 3: the closed 1 and the open 3
\* of component y, the open 2 of component x; x is shown before y, 3 before 1
OrderIndependentWitness ==
  /\ Printed
  /\ variant = "est"
  /\ Len(issues) = 3
  /\ \A i \in 1..3 : issues[i].Milestone = <<TitleA>>
  /\ issues[1].Closed /\ ~issues[2].Closed /\ ~issues[3].Closed
  /\ issues[2].Labels = <<LabelX>>
  /\ Len(stdout.blocks) = 1
  /\ LET cs == View(stdout.blocks, issues)[1].Components
     IN  /\ [k \in 1..Len(cs) |-> cs[k].Name] = <<<<"x">>, <<"y">>>>
         /\ [j \in 1..Len(cs[2].Issues) |-> cs[2].Issues[j].ref] = <<3, 1>>

====
